---- MODULE Spec2Model ----
(***************************************************************************)
(* The market-cap pipeline of the blazr proxy: MarketCapScheduler          *)
(* (services/marketCap/scheduler.js), the updater it drives                *)
(* (services/marketCap/updater.js), the price service                      *)
(* (services/marketCap/tokenPriceService.js), the scheduler's HTTP        *)
(* routes of the server, and the SOL price client SolPriceService that     *)
(* the server's routes call.                                               *)
(*                                                                         *)
(* Node runs every callback to completion, and an `await` on a promise     *)
(* that settles without I/O resumes in the same microtask drain, before    *)
(* any timer or I/O callback.  One action of the model is therefore one    *)
(* callback with all the continuations that run in its drain: the step     *)
(* that ends performUpdate() also runs what follows                        *)
(* `await this.performUpdate()` in start() or triggerUpdate().             *)
(*                                                                         *)
(* Units: a SOL valuation is held in tenths of a SOL, so that the mock     *)
(* multiplier 1 + k/10 of generateMockMarketCapData stays integral; a USD  *)
(* value is then in tenths of a dollar (50 SOL at $150 is 500 * 150 =      *)
(* 75000, that is $7500.0).  One unit of `now` is one minute.              *)
(***************************************************************************)
EXTENDS Integers, Sequences, FiniteSets, TLC

\* ---------------------------------------------------------------- bounds
\* Update cycles that may be in flight together.
MaxInFlight == 2
\* Timer handles setInterval can hand out (armed timers at one time).
MaxTimers == 2
\* The clock stops advancing here.
MaxTime == 3
\* The clock of the SOL price client stops here.
MaxClock == 12

\* ------------------------------------------------------- program constants
\* getTokensNeedingUpdate: tokens not updated for one minute are candidates.
StaleAfter == 1
\* updater.js: the ceiling of consecutive reconnect attempts.
maxReconnectAttempts == 20
\* The close handler: first delay and cap of the backoff, in seconds.
BaseDelay == 5
MaxDelay == 30
\* SolPriceService.getSolPrice: a price younger than five minutes is served
\* from the cache.
FiveMinutes == 5

\* ------------------------------------------------------ data of the model
Null == -1
\* Rows of created_tokens; row 3 is a test token.
Tokens == {1, 2, 3}
\* mint_address of each row, as character codes: "6etEoWR2jd7nzL6hzi4k",
\* "3ti8dzrM1bjhzDojP7ck" and, for the test row, "T".
MintAddress(k) ==
    CASE k = 1 -> <<54, 101, 116, 69, 111, 87, 82, 50, 106, 100, 55, 110, 122,
                    76, 54, 104, 122, 105, 52, 107>>
      [] k = 2 -> <<51, 116, 105, 56, 100, 122, 114, 77, 49, 98, 106, 104, 122,
                    68, 111, 106, 80, 55, 99, 107>>
      [] OTHER -> <<84>>
\* marketCapSol values a trade message may carry (0 and 50 SOL).
TradeValues == {0, 500}
\* SOL prices the quote API may answer, USD per SOL.
Prices == {150, 200}
\* Arguments of start(intervalMinutes), in quarter minutes (0.25 and 1).
Intervals == {1, 4}
\* Token lists passed to subscribeToTokenTrades (updateMarketCaps passes the
\* candidates, never an empty list).
TokenLists == {{1}, {1, 2}}
\* marketCap of a manual override request: absent, or $2000.
OverrideValues == {Null, 20000}
Slots == 1..MaxInFlight
TimerIds == 1..MaxTimers

VARIABLES
    \* MarketCapScheduler fields
    interval,        \* handle of the armed timer, 0 for null
    isRunning,
    lastJobStatus,
    updateInterval,
    \* the runtime's timers created by setInterval and not cleared
    timers,
    \* performUpdate() invocations in flight, by slot
    cycles,
    \* how the latest triggerUpdate() to end has ended, and with which record
    triggerResult,
    \* what the latest updateTokenMarketCap() returned
    result,
    \* created_tokens
    db,
    \* tokenPriceCache of updater.js, by token: marketCapSol or Null
    tokenPriceCache,
    \* TokenPriceService: cached SOL price (Null: none) and whether its
    \* lastUpdate is younger than cacheTimeout
    solPrice,
    solFresh,
    \* wall clock
    now,
    \* history: the latest start() or stop() call
    lastCall,
    \* history: a cycle has ended and, outside of cycles, no trade message
    \* was received and no minute passed since
    successive,
    \* updater.js, the trade stream: the socket wsConnection refers to
    \* ("null", or the state of that socket), and the module's variables
    wsConnection,
    \* the sockets created by new WebSocket() and not closed yet
    sockets,
    isConnected,
    reconnectAttempts,
    lastSubscribedTokens,
    \* the pending reconnect timer: its delay in seconds, 0 for none
    reconnectTimer,
    \* the timers set by the close handler that have not fired yet
    reconnectTimers,
    \* the subscription messages the latest handler of the stream has sent
    sent,
    \* history: closes since the stream was last connected, and sockets the
    \* reconnect timer has created since
    failures,
    made,
    \* history: the branch the message handler took for the latest inbound
    \* message ("none" before the first one)
    received,
    \* SolPriceService: its fields solPrice, lastUpdate and isUpdating
    solPriceService,
    \* the quote requests of fetchSolPrice in flight
    quoteRequests,
    \* what the latest call of getSolPrice() or updateSolPrice() to end has
    \* returned, and from where
    served

vars == <<interval, isRunning, lastJobStatus, updateInterval, timers, cycles,
          triggerResult, result, db, tokenPriceCache, solPrice, solFresh, now,
          lastCall, successive, wsConnection, sockets, isConnected,
          reconnectAttempts, lastSubscribedTokens, reconnectTimer,
          reconnectTimers, sent, failures, made, received, solPriceService,
          quoteRequests, served>>

schedVars == <<interval, isRunning, updateInterval, timers>>
envVars == <<db, tokenPriceCache, solPrice, solFresh, now>>
connectionVars == <<wsConnection, sockets, isConnected, reconnectAttempts,
                    lastSubscribedTokens, reconnectTimer, reconnectTimers, sent,
                    failures, made>>
priceClientVars == <<solPriceService, quoteRequests, served>>
\* What the update pipeline leaves alone, and what the trade stream does.
streamVars == <<connectionVars, received, priceClientVars>>
pipelineVars == <<interval, isRunning, lastJobStatus, updateInterval, timers,
                  cycles, triggerResult, result, db, tokenPriceCache, solPrice,
                  solFresh, now, lastCall, successive, priceClientVars>>

\* ---------------------------------------------------------- pure functions
Abs(x) == IF x < 0 THEN -x ELSE x

\* One step of the reduce in generateMockMarketCapData:
\* a = ((a << 5) - a) + b.charCodeAt(0); return a & a.
\* The result is 31 * a + ch wrapped to a signed 32-bit integer; it is
\* computed on 16-bit halves, every intermediate value below 2^31.
HashStep(a, ch) ==
    LET al == a % 65536
        ah == a \div 65536
        low == 31 * al + ch
        lo16 == low % 65536
        hi16 == (31 * ah + (low \div 65536)) % 65536
    IN  IF hi16 >= 32768 THEN (hi16 - 65536) * 65536 + lo16
        ELSE hi16 * 65536 + lo16

\* tokenAddress.split('').reduce(..., 0): the hash after the first i characters.
HashOf(mint) ==
    LET h[i \in 0..Len(mint)] ==
            IF i = 0 THEN 0 ELSE HashStep(h[i - 1], mint[i])
    IN  h[Len(mint)]

\* generateMockMarketCapData(tokenAddress).marketCapSol, in tenths of a SOL:
\* baseMarketCapSol * multiplier with multiplier = 1 + (|hash| % 5) / 10.
generateMockMarketCapData(mint) ==
    LET hash == HashOf(mint)
        baseMarketCapSol == (Abs(hash) % 100) + 1
    IN  baseMarketCapSol * (10 + (Abs(hash) % 5))

\* A conversion that forgets the SOL price.
calculateMarketCapNoPrice(marketCapInSol, price) == marketCapInSol

\* TokenPriceService.calculateMarketCap once the SOL price is known.
calculateMarketCap(marketCapInSol, price) ==
    IF marketCapInSol = 0 THEN 0 ELSE marketCapInSol * price

\* The mock valuation of every token: a function of its mint address only.
MockMarketCapSol ==
    [k \in Tokens |-> generateMockMarketCapData(MintAddress(k))]

\* getCachedTokenPrice(tokenAddress).marketCapSol: the entry of the token,
\* or null when the map has none (Null stands for the missing entry).
getCachedTokenPrice(k) == tokenPriceCache[k]

\* updateTokenMarketCap, source selection: the cached trade data if any,
\* else mock data.
SelectSource(k) ==
    IF getCachedTokenPrice(k) # Null
    THEN [marketCapSol |-> getCachedTokenPrice(k), dataSource |-> "real-time"]
    ELSE [marketCapSol |-> MockMarketCapSol[k], dataSource |-> "mock"]

\* A candidate filter without the is_test condition.
NeedsUpdateAnyToken(k, cutoff) ==
    \/ db[k].last_market_cap_update = Null
    \/ db[k].last_market_cap_update < cutoff

\* The filter of getTokensNeedingUpdate for a cutoff.
NeedsUpdate(k, cutoff) ==
    /\ ~db[k].is_test
    /\ \/ db[k].last_market_cap_update = Null
       \/ db[k].last_market_cap_update < cutoff

\* order('last_market_cap_update', ascending, nullsFirst): Null is -1.
Ordered(s) ==
    \A i, j \in 1..Len(s) :
        i < j => db[s[i]].last_market_cap_update <= db[s[j]].last_market_cap_update

\* The answers the store may give to the candidate query: the candidates in
\* order, rows with equal timestamps in either order.
QueryAnswers(cutoff) ==
    LET cand == {k \in Tokens : NeedsUpdate(k, cutoff)}
    IN  {s \in UNION {[1..n -> cand] : n \in {Cardinality(cand)}} :
            /\ {s[i] : i \in 1..Len(s)} = cand
            /\ Ordered(s)}

\* ------------------------------------------------------------------ records
NoJob == [status |-> "none", job |-> 0, origin |-> "none", startTime |-> Null,
          endTime |-> Null, tokensUpdated |-> 0, tokensProcessed |-> Null,
          errors |-> <<>>, error |-> "null"]

NoTrigger == [outcome |-> "none", status |-> "none", error |-> "null",
              own |-> FALSE]

NoResult == [token |-> 0, updated |-> FALSE, marketCapUsd |-> Null,
             marketCapSol |-> Null, dataSource |-> "none", error |-> "none"]

IdleCycle == [pc |-> "idle", origin |-> "none", startTime |-> Null,
              tokens |-> <<>>, idx |-> 0, tokensUpdated |-> 0, errors |-> <<>>,
              marketCapSol |-> Null, dataSource |-> "none", price |-> Null,
              marketCapUsd |-> Null, stamp |-> Null]

InFlight(c) == cycles[c].pc # "idle"
FreeSlot(c) == /\ ~InFlight(c)
               /\ \A d \in Slots : d < c => InFlight(d)
PendingStarts == {c \in Slots : InFlight(c) /\ cycles[c].origin = "start"}
NewTimer == CHOOSE t \in TimerIds : t \notin timers /\ \A u \in TimerIds : u < t => u \in timers

\* ----------------------------------------- the trade stream, as it is called
\* An initializeWebSocket() that replaces a closed socket.
initializeWebSocketReplacingClosed(ws) ==
    IF ws \notin {"null", "closed"} THEN [socket |-> ws, created |-> 0]
    ELSE [socket |-> "connecting", created |-> 1]

\* An initializeWebSocket() without its guard.
initializeWebSocketAlwaysNew(ws) == [socket |-> "connecting", created |-> 1]

\* initializeWebSocket() when wsConnection is ws: the socket it returns and
\* leaves in wsConnection, which is the existing handle whatever its state,
\* or a new socket, and the number of sockets it has created.
initializeWebSocket(ws) ==
    IF ws # "null" THEN [socket |-> ws, created |-> 0]
    ELSE [socket |-> "connecting", created |-> 1]

\* What a call of initializeWebSocket() does to the stream.
InitializeWebSocketCall ==
    /\ wsConnection' = initializeWebSocket(wsConnection).socket
    /\ sockets' = sockets + initializeWebSocket(wsConnection).created
    /\ sent' = <<>>
    /\ UNCHANGED <<isConnected, reconnectAttempts, lastSubscribedTokens,
                   reconnectTimer, reconnectTimers, failures, made, received,
                   priceClientVars>>

\* What a call of subscribeToTokenTrades(tokenAddresses) does to the stream:
\* the list is remembered, then sent if the stream is connected, else
\* initializeWebSocket() is called.
subscribeToTokenTrades(tokenAddresses) ==
    /\ lastSubscribedTokens' = tokenAddresses
    /\ IF ~isConnected \/ wsConnection = "null"
       THEN /\ wsConnection' = initializeWebSocket(wsConnection).socket
            /\ sockets' = sockets + initializeWebSocket(wsConnection).created
            /\ sent' = <<>>
       ELSE /\ sent' = <<tokenAddresses>>
            /\ UNCHANGED <<wsConnection, sockets>>
    /\ UNCHANGED <<isConnected, reconnectAttempts, reconnectTimer,
                   reconnectTimers, failures, made, received,
                   priceClientVars>>

\* ------------------------------------------------------- MarketCapScheduler
\* performUpdate, line 46: the record written when a cycle starts.
RunningRecord(c, origin) ==
    [NoJob EXCEPT !.status = "running", !.job = c, !.origin = origin,
                  !.startTime = now]

\* A completed record that counts only the updated tokens as processed.
CompletedRecordCountingUpdated(c, cy) ==
    [NoJob EXCEPT !.status = "completed", !.job = c, !.origin = cy.origin,
                  !.startTime = cy.startTime, !.endTime = now,
                  !.tokensUpdated = cy.tokensUpdated,
                  !.tokensProcessed = cy.tokensUpdated, !.errors = cy.errors]

\* performUpdate, line 55: the record written when updateMarketCaps returns.
CompletedRecord(c, cy) ==
    [NoJob EXCEPT !.status = "completed", !.job = c, !.origin = cy.origin,
                  !.startTime = cy.startTime, !.endTime = now,
                  !.tokensUpdated = cy.tokensUpdated,
                  !.tokensProcessed = cy.idx, !.errors = cy.errors]

\* A catch block that records the failure without its message.
FailedRecordNoMessage(c, cy, message) ==
    [NoJob EXCEPT !.status = "failed", !.job = c, !.origin = cy.origin,
                  !.startTime = cy.startTime, !.endTime = now]

\* performUpdate, line 71: the record written by the catch block.
FailedRecord(c, cy, message) ==
    [NoJob EXCEPT !.status = "failed", !.job = c, !.origin = cy.origin,
                  !.startTime = cy.startTime, !.endTime = now,
                  !.error = message]

\* getLastJobStatus().
getLastJobStatus == lastJobStatus

\* isSchedulerRunning().
isSchedulerRunning == isRunning

\* GET /api/market-cap-scheduler/status: isRunning is computed from the last
\* job record.
SchedulerStatusRoute ==
    [lastJob |-> getLastJobStatus,
     isRunning |-> getLastJobStatus.status = "running"]

\* The start of performUpdate(), up to the first await that needs I/O:
\* the running record, initializeWebSocket, and the candidate query sent
\* with its cutoff taken from the clock.
BeginCycle(c, origin) ==
    /\ lastJobStatus' = RunningRecord(c, origin)
    /\ InitializeWebSocketCall
    /\ cycles' = [cycles EXCEPT ![c] =
                    [IdleCycle EXCEPT !.pc = "query", !.origin = origin,
                                      !.startTime = now]]

\* A start() without its guard.
NeverRunning == FALSE

\* The guard of start(): line 13.
AlreadyRunning == isRunning

\* start(intervalMinutes), up to its await of the initial cycle.
Start(m) ==
    /\ lastCall' = IF isRunning THEN "startRunning" ELSE "start"
    /\ IF AlreadyRunning
       THEN UNCHANGED <<interval, isRunning, lastJobStatus, updateInterval,
                        timers, cycles, streamVars>>
       ELSE /\ Cardinality(timers) + Cardinality(PendingStarts) < MaxTimers
            /\ \E c \in Slots : FreeSlot(c) /\ BeginCycle(c, "start")
            /\ updateInterval' = m
            /\ UNCHANGED <<interval, isRunning, timers>>
    /\ UNCHANGED <<triggerResult, successive, result, envVars>>

\* A stop() that also abandons the cycles in flight.
StopCancellingCycles ==
    /\ IF interval # 0
       THEN timers' = timers \ {interval}
       ELSE timers' = timers
    /\ interval' = 0
    /\ isRunning' = FALSE
    /\ lastCall' = "stop"
    /\ cycles' = [c \in Slots |-> IdleCycle]
    /\ UNCHANGED <<lastJobStatus, updateInterval, triggerResult, successive,
                   result, envVars, streamVars>>

\* stop().
Stop ==
    /\ IF interval # 0
       THEN timers' = timers \ {interval}
       ELSE timers' = timers
    /\ interval' = 0
    /\ isRunning' = FALSE
    /\ lastCall' = "stop"
    /\ UNCHANGED <<lastJobStatus, updateInterval, cycles, triggerResult,
                   successive, result, envVars, streamVars>>

\* The setInterval callback of timer t fires.
Tick(t) ==
    /\ t \in timers
    /\ \E c \in Slots : FreeSlot(c) /\ BeginCycle(c, "timer")
    /\ UNCHANGED <<schedVars, triggerResult, successive, result, envVars,
                   lastCall>>

\* triggerUpdate(), up to its await.
TriggerUpdate ==
    /\ \E c \in Slots : FreeSlot(c) /\ BeginCycle(c, "manual")
    /\ UNCHANGED <<schedVars, triggerResult, successive, result, envVars,
                   lastCall>>

\* How the promise of performUpdate() settles once rec is written: the catch
\* block, lines 68 to 78, ends without a throw, so it always resolves.
PerformUpdateSettles(rec) == "resolved"

\* A triggerUpdate() that returns the record it read before the end of its
\* cycle.
TriggerReturnEarly(c, settled, last) ==
    [outcome |-> IF settled = "resolved" THEN "returned" ELSE "threw",
     status |-> lastJobStatus.status, error |-> lastJobStatus.error,
     own |-> lastJobStatus.job = c
             /\ lastJobStatus.startTime = cycles[c].startTime]

\* What triggerUpdate() of cycle c hands to its caller: this.lastJobStatus as
\* read after the await (last), or the exception. `own` tells whether the
\* record returned is the one of the call's own cycle.
TriggerReturn(c, settled, last) ==
    [outcome |-> IF settled = "resolved" THEN "returned" ELSE "threw",
     status |-> last.status, error |-> last.error,
     own |-> last.job = c /\ last.startTime = cycles[c].startTime]

\* An end of performUpdate() whose failure path clears the timer.
FinishDisarming(c, rec) ==
    /\ lastJobStatus' = rec
    /\ cycles' = [cycles EXCEPT ![c] = IdleCycle]
    /\ IF rec.status = "failed"
       THEN /\ interval' = 0
            /\ timers' = timers \ {interval}
            /\ isRunning' = FALSE
       ELSE IF cycles[c].origin = "start"
            THEN /\ interval' = NewTimer
                 /\ timers' = timers \cup {NewTimer}
                 /\ isRunning' = TRUE
            ELSE UNCHANGED <<interval, timers, isRunning>>
    /\ IF cycles[c].origin = "manual"
       THEN triggerResult' = TriggerReturn(c, PerformUpdateSettles(rec), rec)
       ELSE UNCHANGED triggerResult
    /\ successive' = TRUE
    /\ UNCHANGED updateInterval

\* An end of performUpdate() whose catch block writes no record.
FinishWithoutFailedRecord(c, rec) ==
    /\ lastJobStatus' = IF rec.status = "failed" THEN lastJobStatus ELSE rec
    /\ cycles' = [cycles EXCEPT ![c] = IdleCycle]
    /\ IF cycles[c].origin = "start" /\ PerformUpdateSettles(rec) = "resolved"
       THEN /\ interval' = NewTimer
            /\ timers' = timers \cup {NewTimer}
            /\ isRunning' = TRUE
       ELSE UNCHANGED <<interval, timers, isRunning>>
    /\ IF cycles[c].origin = "manual"
       THEN triggerResult' = TriggerReturn(c, PerformUpdateSettles(rec), rec)
       ELSE UNCHANGED triggerResult
    /\ successive' = TRUE
    /\ UNCHANGED updateInterval

\* The end of performUpdate() for cycle c, which writes rec, and what follows
\* `await this.performUpdate()` in its caller: start() arms the timer and
\* sets isRunning, triggerUpdate() returns this.lastJobStatus, the timer
\* callback ends.
Finish(c, rec) ==
    /\ lastJobStatus' = rec
    /\ cycles' = [cycles EXCEPT ![c] = IdleCycle]
    /\ IF cycles[c].origin = "start" /\ PerformUpdateSettles(rec) = "resolved"
       THEN /\ interval' = NewTimer
            /\ timers' = timers \cup {NewTimer}
            /\ isRunning' = TRUE
       ELSE UNCHANGED <<interval, timers, isRunning>>
    /\ IF cycles[c].origin = "manual"
       THEN triggerResult' = TriggerReturn(c, PerformUpdateSettles(rec), rec)
       ELSE UNCHANGED triggerResult
    /\ successive' = TRUE
    /\ UNCHANGED updateInterval

\* ------------------------------------------------------------------ updater
\* An updateTokenMarketCap that asks for the SOL price whatever the valuation.
EnterTokenAlwaysQuoting(cy, i) ==
    LET src == SelectSource(cy.tokens[i])
    IN  IF solPrice # Null /\ solFresh
        THEN [cy EXCEPT !.pc = "write", !.idx = i,
                        !.marketCapSol = src.marketCapSol,
                        !.dataSource = src.dataSource, !.price = solPrice,
                        !.marketCapUsd = calculateMarketCap(src.marketCapSol, solPrice),
                        !.stamp = now]
        ELSE [cy EXCEPT !.pc = "price", !.idx = i,
                        !.marketCapSol = src.marketCapSol,
                        !.dataSource = src.dataSource, !.price = Null,
                        !.marketCapUsd = Null, !.stamp = Null]

\* The loop of updateMarketCaps reaches token i of cycle record cy:
\* updateTokenMarketCap reads the trade cache and asks for the USD value.
\* A zero valuation, or a SOL price cached within cacheTimeout, needs no
\* I/O, so the store update is sent in the same step; otherwise the quote
\* request is sent.
EnterToken(cy, i) ==
    LET src == SelectSource(cy.tokens[i])
        known == src.marketCapSol = 0 \/ (solPrice # Null /\ solFresh)
        price == IF src.marketCapSol = 0 THEN 0 ELSE solPrice
    IN  IF known
        THEN [cy EXCEPT !.pc = "write", !.idx = i,
                        !.marketCapSol = src.marketCapSol,
                        !.dataSource = src.dataSource, !.price = price,
                        !.marketCapUsd = calculateMarketCap(src.marketCapSol, price),
                        !.stamp = now]
        ELSE [cy EXCEPT !.pc = "price", !.idx = i,
                        !.marketCapSol = src.marketCapSol,
                        !.dataSource = src.dataSource, !.price = Null,
                        !.marketCapUsd = Null, !.stamp = Null]

\* A loop that stops at the first token that gave an error.
ContinueUntilError(c, cy) ==
    IF cy.idx = Len(cy.tokens) \/ cy.errors # <<>>
    THEN Finish(c, CompletedRecord(c, cy))
    ELSE /\ cycles' = [cycles EXCEPT ![c] = EnterToken(cy, cy.idx + 1)]
         /\ UNCHANGED <<lastJobStatus, schedVars, triggerResult, successive>>

\* The loop of updateMarketCaps after token cy.idx gave its result: the next
\* token, or the return to performUpdate.
Continue(c, cy) ==
    IF cy.idx = Len(cy.tokens)
    THEN Finish(c, CompletedRecord(c, cy))
    ELSE /\ cycles' = [cycles EXCEPT ![c] = EnterToken(cy, cy.idx + 1)]
         /\ UNCHANGED <<lastJobStatus, schedVars, triggerResult, successive>>

\* The candidate query fails: getTokensNeedingUpdate and updateMarketCaps
\* rethrow, performUpdate catches.
QueryError(c) ==
    /\ cycles[c].pc = "query"
    /\ Finish(c, FailedRecord(c, cycles[c], "query failed"))
    /\ UNCHANGED <<result, envVars, lastCall, streamVars>>

\* An updateMarketCaps that does not subscribe to its candidates.
QueryDataNotSubscribing(c) ==
    /\ cycles[c].pc = "query"
    /\ \E s \in QueryAnswers(cycles[c].startTime - StaleAfter) :
         IF Len(s) = 0
         THEN Finish(c, CompletedRecord(c, cycles[c]))
         ELSE /\ cycles' = [cycles EXCEPT ![c].pc = "settle", ![c].tokens = s]
              /\ UNCHANGED <<lastJobStatus, schedVars, triggerResult, successive>>
    /\ UNCHANGED <<result, envVars, lastCall, streamVars>>

\* The candidate query answers: no candidate ends the cycle, otherwise the
\* candidates are subscribed to and the settling delay starts.
QueryData(c) ==
    /\ cycles[c].pc = "query"
    /\ \E s \in QueryAnswers(cycles[c].startTime - StaleAfter) :
         IF Len(s) = 0
         THEN /\ Finish(c, CompletedRecord(c, cycles[c]))
              /\ UNCHANGED streamVars
         ELSE /\ cycles' = [cycles EXCEPT ![c].pc = "settle", ![c].tokens = s]
              /\ subscribeToTokenTrades({s[i] : i \in 1..Len(s)})
              /\ UNCHANGED <<lastJobStatus, schedVars, triggerResult, successive>>
    /\ UNCHANGED <<result, envVars, lastCall>>

\* The settling delay of five seconds is over.
SettleElapsed(c) ==
    /\ cycles[c].pc = "settle"
    /\ cycles' = [cycles EXCEPT ![c] = EnterToken(cycles[c], 1)]
    /\ UNCHANGED <<lastJobStatus, schedVars, triggerResult, successive, result,
                   envVars, lastCall, streamVars>>

\* The quote API answers price p: getTokenPrice caches it, calculateMarketCap
\* converts, updateTokenMarketCap sends the store update.
PriceAnswer(c, p) ==
    /\ cycles[c].pc = "price"
    /\ solPrice' = p
    /\ solFresh' = TRUE
    /\ cycles' = [cycles EXCEPT ![c].pc = "write", ![c].price = p,
                    ![c].marketCapUsd = calculateMarketCap(cycles[c].marketCapSol, p),
                    ![c].stamp = now]
    /\ UNCHANGED <<lastJobStatus, schedVars, triggerResult, successive, result,
                   db, tokenPriceCache, now, lastCall, streamVars>>

\* A failed quote request after which the same token is tried again.
PriceErrorRetrying(c) ==
    LET cy == cycles[c]
        k == cy.tokens[cy.idx]
    IN  /\ cy.pc = "price"
        /\ result' = [NoResult EXCEPT !.token = k,
                                      !.error = "Could not calculate market cap"]
        /\ UNCHANGED <<cycles, lastJobStatus, schedVars, triggerResult,
                       successive, envVars, lastCall, streamVars>>

\* The quote request fails: fetchTokenPrice, getTokenPrice and
\* calculateMarketCap return null, the token is skipped.
PriceError(c) ==
    LET cy == cycles[c]
        k == cy.tokens[cy.idx]
    IN  /\ cy.pc = "price"
        /\ result' = [NoResult EXCEPT !.token = k,
                                      !.error = "Could not calculate market cap"]
        /\ Continue(c, [cy EXCEPT !.errors = Append(@, k)])
        /\ UNCHANGED <<envVars, lastCall, streamVars>>

\* The store update of updateTokenMarketCap, lines 263 to 269.
StoreUpdate(k, cy) ==
    [db EXCEPT ![k].market_cap = cy.marketCapUsd,
               ![k].last_market_cap_update = cy.stamp]

\* The store update succeeds.
WriteOk(c) ==
    LET cy == cycles[c]
        k == cy.tokens[cy.idx]
    IN  /\ cy.pc = "write"
        /\ db' = StoreUpdate(k, cy)
        /\ result' = [token |-> k, updated |-> TRUE,
                      marketCapUsd |-> cy.marketCapUsd,
                      marketCapSol |-> cy.marketCapSol,
                      dataSource |-> cy.dataSource, error |-> "none"]
        /\ Continue(c, [cy EXCEPT !.tokensUpdated = @ + 1])
        /\ UNCHANGED <<tokenPriceCache, solPrice, solFresh, now, lastCall, streamVars>>

\* The store update fails: the error is thrown and caught in
\* updateTokenMarketCap.
WriteError(c) ==
    LET cy == cycles[c]
        k == cy.tokens[cy.idx]
    IN  /\ cy.pc = "write"
        /\ result' = [NoResult EXCEPT !.token = k, !.error = "store error"]
        /\ Continue(c, [cy EXCEPT !.errors = Append(@, k)])
        /\ UNCHANGED <<envVars, lastCall, streamVars>>

\* A message handler that keeps the higher of the cached and the new value.
TradeEventKeepingHigher(k, v) ==
    /\ tokenPriceCache' = [tokenPriceCache EXCEPT ![k] = IF @ > v THEN @ ELSE v]
    /\ successive' = (successive /\ \E c \in Slots : InFlight(c))
    /\ received' = "trade"
    /\ UNCHANGED <<lastJobStatus, schedVars, cycles, triggerResult, result, db,
                   solPrice, solFresh, now, lastCall, connectionVars,
                   priceClientVars>>

\* handleWebSocketMessage: a trade message for token k carrying marketCapSol v.
TradeEvent(k, v) ==
    /\ tokenPriceCache' = [tokenPriceCache EXCEPT ![k] = v]
    /\ successive' = (successive /\ \E c \in Slots : InFlight(c))
    /\ received' = "trade"
    /\ UNCHANGED <<lastJobStatus, schedVars, cycles, triggerResult, result, db,
                   solPrice, solFresh, now, lastCall, connectionVars,
                   priceClientVars>>

\* The text of the acknowledgment PumpPortal sends after a subscription.
Acknowledgment == "Successfully subscribed to keys."

\* Inbound frames: one that JSON.parse rejects, and the objects with or
\* without a mint, a marketCapSol and a message field (Null: no such field).
Messages ==
    {[parses |-> FALSE, mint |-> Null, marketCapSol |-> Null,
      message |-> "none"]}
    \cup [parses : {TRUE}, mint : {Null, 1, 2},
          marketCapSol : {Null} \cup TradeValues,
          message : {"none", Acknowledgment}]

\* A test of the trade shape that looks at the mint only.
HasTradeShapeByMint(m) == m.mint # Null

\* handleWebSocketMessage, line 83: message.mint && message.marketCapSol !==
\* undefined.
HasTradeShape(m) == m.mint # Null /\ m.marketCapSol # Null

\* The branch taken for frame m: the catch of the 'message' handler, or one
\* of the three branches of handleWebSocketMessage.
Branch(m) ==
    IF ~m.parses THEN "unparsable"
    ELSE IF HasTradeShape(m) THEN "trade"
    ELSE IF m.message = Acknowledgment THEN "acknowledgment"
    ELSE "unknown"

\* The 'message' handler of the open socket for frame m.
Message(m) ==
    /\ wsConnection = "open"
    /\ IF m.parses /\ HasTradeShape(m)
       THEN TradeEvent(m.mint, m.marketCapSol)
       ELSE /\ received' = Branch(m)
            /\ UNCHANGED <<pipelineVars, connectionVars>>

\* POST /api/token/:mint/market-cap for token k: last_market_cap_update is
\* always set, market_cap only when the body carries marketCap (Null: the
\* body carries price or volume24h only).
ManualOverride(k, marketCap) ==
    /\ db' = [db EXCEPT ![k].last_market_cap_update = now,
                        ![k].market_cap = IF marketCap = Null THEN @
                                          ELSE marketCap]
    /\ UNCHANGED <<lastJobStatus, schedVars, cycles, triggerResult, successive,
                   result, tokenPriceCache, solPrice, solFresh, now, lastCall,
                   streamVars>>

\* --------------------------------------------------------- the trade stream
\* A backoff without its cap.
ReconnectDelayUncapped(attempts) == BaseDelay * 2^attempts

\* The delay of the close handler, in seconds:
\* Math.min(30000, 5000 * Math.pow(2, reconnectAttempts)).
ReconnectDelay(attempts) ==
    IF BaseDelay * 2^attempts < MaxDelay THEN BaseDelay * 2^attempts
    ELSE MaxDelay

\* initializeWebSocket(), called from outside an update cycle.
InitializeWebSocket ==
    /\ InitializeWebSocketCall
    /\ UNCHANGED pipelineVars

\* A subscribeToTokenTrades() that sends whatever the connection state.
SubscribeSendingAlways(tokenAddresses) ==
    /\ lastSubscribedTokens' = tokenAddresses
    /\ sent' = <<tokenAddresses>>
    /\ UNCHANGED <<wsConnection, sockets, isConnected, reconnectAttempts,
                   reconnectTimer, reconnectTimers, failures, made, received,
                   pipelineVars>>

\* A subscribeToTokenTrades() that only remembers the list when the stream
\* is not connected.
SubscribeWithoutConnect(tokenAddresses) ==
    /\ lastSubscribedTokens' = tokenAddresses
    /\ IF ~isConnected \/ wsConnection = "null"
       THEN sent' = <<>>
       ELSE sent' = <<tokenAddresses>>
    /\ UNCHANGED <<wsConnection, sockets, isConnected, reconnectAttempts,
                   reconnectTimer, reconnectTimers, failures, made, received,
                   pipelineVars>>

\* subscribeToTokenTrades(tokenAddresses), called from outside an update
\* cycle.
Subscribe(tokenAddresses) ==
    /\ subscribeToTokenTrades(tokenAddresses)
    /\ UNCHANGED pipelineVars

\* The 'open' handler.
Open ==
    /\ wsConnection = "connecting"
    /\ wsConnection' = "open"
    /\ isConnected' = TRUE
    /\ reconnectAttempts' = 0
    /\ sent' = IF lastSubscribedTokens # {} THEN <<lastSubscribedTokens>>
               ELSE <<>>
    /\ failures' = 0
    /\ made' = 0
    /\ UNCHANGED <<sockets, lastSubscribedTokens, reconnectTimer,
                   reconnectTimers, received, pipelineVars>>

\* An 'error' handler that starts the count of reconnect attempts again.
ErrorResetting ==
    /\ wsConnection \in {"connecting", "open"}
    /\ isConnected' = FALSE
    /\ wsConnection' = "closing"
    /\ reconnectAttempts' = 0
    /\ sent' = <<>>
    /\ UNCHANGED <<sockets, lastSubscribedTokens, reconnectTimer,
                   reconnectTimers, failures, made, received, pipelineVars>>

\* The 'error' handler: the socket is closed, its 'close' event follows.
Error ==
    /\ wsConnection \in {"connecting", "open"}
    /\ isConnected' = FALSE
    /\ wsConnection' = "closing"
    /\ sent' = <<>>
    /\ UNCHANGED <<sockets, reconnectAttempts, lastSubscribedTokens,
                   reconnectTimer, reconnectTimers, failures, made, received,
                   pipelineVars>>

\* A 'close' handler without the ceiling.
CloseAlwaysRetrying ==
    /\ wsConnection \in {"open", "closing"}
    /\ wsConnection' = "closed"
    /\ sockets' = sockets - 1
    /\ isConnected' = FALSE
    /\ reconnectTimer' = ReconnectDelay(reconnectAttempts)
    /\ reconnectTimers' = reconnectTimers + 1
    /\ failures' = failures + 1
    /\ sent' = <<>>
    /\ UNCHANGED <<reconnectAttempts, lastSubscribedTokens, made,
                   received, pipelineVars>>

\* A 'close' handler that forgets the subscription.
CloseForgetting ==
    /\ wsConnection \in {"open", "closing"}
    /\ wsConnection' = "closed"
    /\ sockets' = sockets - 1
    /\ isConnected' = FALSE
    /\ reconnectTimer' = IF reconnectAttempts < maxReconnectAttempts
                         THEN ReconnectDelay(reconnectAttempts)
                         ELSE 0
    /\ reconnectTimers' = IF reconnectAttempts < maxReconnectAttempts
                          THEN reconnectTimers + 1
                          ELSE reconnectTimers
    /\ failures' = failures + 1
    /\ sent' = <<>>
    /\ lastSubscribedTokens' = {}
    /\ UNCHANGED <<reconnectAttempts, made, received, pipelineVars>>

\* A 'close' handler that never schedules a reconnect.
CloseGivingUp ==
    /\ wsConnection \in {"open", "closing"}
    /\ wsConnection' = "closed"
    /\ sockets' = sockets - 1
    /\ isConnected' = FALSE
    /\ reconnectTimer' = 0
    /\ failures' = failures + 1
    /\ sent' = <<>>
    /\ UNCHANGED <<reconnectAttempts, reconnectTimers, lastSubscribedTokens,
                   made, received, pipelineVars>>

\* The 'close' handler, after an error or when the server closes.
Close ==
    /\ wsConnection \in {"open", "closing"}
    /\ wsConnection' = "closed"
    /\ sockets' = sockets - 1
    /\ isConnected' = FALSE
    /\ reconnectTimer' = IF reconnectAttempts < maxReconnectAttempts
                         THEN ReconnectDelay(reconnectAttempts)
                         ELSE 0
    /\ reconnectTimers' = IF reconnectAttempts < maxReconnectAttempts
                          THEN reconnectTimers + 1
                          ELSE reconnectTimers
    /\ failures' = failures + 1
    /\ sent' = <<>>
    /\ UNCHANGED <<reconnectAttempts, lastSubscribedTokens, made,
                   received, pipelineVars>>

\* A timer of the close handler fires: the handle is dropped, the attempt
\* counted and initializeWebSocket() called.
ReconnectTimer ==
    /\ reconnectTimers > 0
    /\ reconnectTimers' = reconnectTimers - 1
    /\ reconnectTimer' = IF reconnectTimers = 1 THEN 0 ELSE reconnectTimer
    /\ reconnectAttempts' = reconnectAttempts + 1
    /\ wsConnection' = initializeWebSocket("null").socket
    /\ sockets' = sockets + initializeWebSocket("null").created
    /\ made' = made + 1
    /\ sent' = <<>>
    /\ UNCHANGED <<isConnected, lastSubscribedTokens, failures, received,
                   pipelineVars>>

\* ---------------------------------------------------------------- the clock
\* A minute passes.
AdvanceTime ==
    /\ now < MaxTime
    /\ now' = now + 1
    /\ successive' = (successive /\ \E c \in Slots : InFlight(c))
    /\ UNCHANGED <<lastJobStatus, schedVars, cycles, triggerResult, result, db,
                   tokenPriceCache, solPrice, solFresh, lastCall, streamVars>>

\* The cached SOL price becomes older than cacheTimeout.
PriceExpire ==
    /\ solPrice # Null
    /\ solFresh
    /\ solFresh' = FALSE
    /\ UNCHANGED <<lastJobStatus, schedVars, cycles, triggerResult, successive,
                   result, db, tokenPriceCache, solPrice, now, lastCall,
                   streamVars>>

\* ----------------------------------------------------------- SolPriceService
\* No call of the price client has ended yet.
NotServed == [price |-> Null, from |-> "none"]

\* The test of getSolPrice(): a price is cached and its lastUpdate is less
\* than five minutes old.
IsRecent ==
    /\ solPriceService.solPrice # Null
    /\ solPriceService.lastUpdate # Null
    /\ solPriceService.lastUpdate > now - FiveMinutes

\* updateSolPrice(), up to its await: a call made while a refresh is in
\* progress returns this.solPrice at once, which is null before the first
\* price; else the flag is set and the quote request of fetchSolPrice sent.
updateSolPrice ==
    IF solPriceService.isUpdating
    THEN /\ served' = [price |-> solPriceService.solPrice, from |-> "busy"]
         /\ UNCHANGED <<solPriceService, quoteRequests>>
    ELSE /\ solPriceService' = [solPriceService EXCEPT !.isUpdating = TRUE]
         /\ quoteRequests' = quoteRequests + 1
         /\ UNCHANGED served

\* What no action of the price client changes.
outsidePriceClient ==
    <<interval, isRunning, lastJobStatus, updateInterval, timers, cycles,
      triggerResult, result, db, tokenPriceCache, solPrice, solFresh, lastCall,
      successive, connectionVars, received>>

\* getSolPrice(), up to its await.
GetSolPrice ==
    /\ IF IsRecent
       THEN /\ served' = [price |-> solPriceService.solPrice, from |-> "cache"]
            /\ UNCHANGED <<solPriceService, quoteRequests>>
       ELSE updateSolPrice
    /\ UNCHANGED <<now, outsidePriceClient>>

\* updateSolPrice() called by startAutoUpdate(): the initial update and the
\* callback of its timer.
UpdateSolPrice ==
    /\ updateSolPrice
    /\ UNCHANGED <<now, outsidePriceClient>>

\* The quote API answers price p: updateSolPrice stores it with the time,
\* its finally block clears the flag.
QuoteAnswer(p) ==
    /\ quoteRequests > 0
    /\ quoteRequests' = quoteRequests - 1
    /\ solPriceService' = [solPrice |-> p, lastUpdate |-> now,
                           isUpdating |-> FALSE]
    /\ served' = [price |-> p, from |-> "network"]
    /\ UNCHANGED <<now, outsidePriceClient>>

\* A failed quote request whose flag is not cleared.
QuoteFailureKeepingFlag ==
    /\ quoteRequests > 0
    /\ quoteRequests' = quoteRequests - 1
    /\ IF solPriceService.solPrice # Null
       THEN /\ solPriceService' = [solPriceService EXCEPT !.lastUpdate = now]
            /\ served' = [price |-> solPriceService.solPrice,
                          from |-> "fallback"]
       ELSE /\ UNCHANGED solPriceService
            /\ served' = [price |-> Null, from |-> "threw"]
    /\ UNCHANGED <<now, outsidePriceClient>>

\* The quote request fails. With a price cached, the catch block of
\* fetchSolPrice returns it, and updateSolPrice stores it with the time as
\* it stores a new price; with none, the error is rethrown to the caller.
\* The finally block clears the flag in both cases.
QuoteFailure ==
    /\ quoteRequests > 0
    /\ quoteRequests' = quoteRequests - 1
    /\ IF solPriceService.solPrice # Null
       THEN /\ solPriceService' = [solPriceService EXCEPT
                                     !.lastUpdate = now, !.isUpdating = FALSE]
            /\ served' = [price |-> solPriceService.solPrice,
                          from |-> "fallback"]
       ELSE /\ solPriceService' = [solPriceService EXCEPT
                                     !.isUpdating = FALSE]
            /\ served' = [price |-> Null, from |-> "threw"]
    /\ UNCHANGED <<now, outsidePriceClient>>

\* The quote request of fetchSolPrice settles: axios answers, or fails after
\* its timeout of ten seconds at the latest.
QuoteSettles == (\E p \in Prices : QuoteAnswer(p)) \/ QuoteFailure

\* d minutes pass.
Elapse(d) ==
    /\ now + d <= MaxClock
    /\ now' = now + d
    /\ UNCHANGED <<priceClientVars, outsidePriceClient>>

\* ------------------------------------------------------------ specification
\* The server has just started: nothing scheduled, no trade seen, no price.
\* In the store, token 1 was never updated, token 2 was last updated at
\* minute last2 at $1000, token 3 is a test token.
InitWith(last2) ==
    /\ interval = 0
    /\ isRunning = FALSE
    /\ lastJobStatus = NoJob
    /\ updateInterval = 1
    /\ timers = {}
    /\ cycles = [c \in Slots |-> IdleCycle]
    /\ triggerResult = NoTrigger
    /\ result = NoResult
    /\ db = [k \in Tokens |->
               IF k = 2
               THEN [market_cap |-> 10000, last_market_cap_update |-> last2,
                     is_test |-> FALSE]
               ELSE [market_cap |-> Null, last_market_cap_update |-> Null,
                     is_test |-> k = 3]]
    /\ tokenPriceCache = [k \in Tokens |-> Null]
    /\ solPrice = Null
    /\ solFresh = FALSE
    /\ now = 2
    /\ lastCall = "none"
    /\ successive = FALSE
    /\ wsConnection = "null"
    /\ sockets = 0
    /\ isConnected = FALSE
    /\ reconnectAttempts = 0
    /\ lastSubscribedTokens = {}
    /\ reconnectTimer = 0
    /\ reconnectTimers = 0
    /\ sent = <<>>
    /\ failures = 0
    /\ made = 0
    /\ received = "none"
    /\ solPriceService = [solPrice |-> Null, lastUpdate |-> Null,
                          isUpdating |-> FALSE]
    /\ quoteRequests = 0
    /\ served = NotServed

\* Token 2 was updated within the last minute: token 1 is the one candidate.
Init == InitWith(2)

\* Token 2 was updated two minutes ago: both tokens are candidates.
InitReconcile == InitWith(0)

\* The steps of an update cycle in which every token is reconciled, the
\* quote API answering one of `prices`.
CycleStep(prices) ==
    \/ \E c \in Slots : QueryError(c)
    \/ \E c \in Slots : QueryData(c)
    \/ \E c \in Slots : SettleElapsed(c)
    \/ \E c \in Slots, p \in prices : PriceAnswer(c, p)
    \/ \E c \in Slots : WriteOk(c)

\* The steps in which the reconciliation of one token fails.
TokenFailure ==
    \/ \E c \in Slots : PriceError(c)
    \/ \E c \in Slots : WriteError(c)

\* The scheduler under every interleaving of its operations, its timers and
\* the steps of the cycles in flight. A cycle fails as a whole when its
\* candidate query fails; the failures of single tokens, which reach the
\* scheduler only as counts in the completed record, are in ReconcileSpec.
Next ==
    \/ \E m \in Intervals : Start(m)
    \/ Stop
    \/ \E t \in TimerIds : Tick(t)
    \/ TriggerUpdate
    \/ CycleStep({150})

Spec == Init /\ [][Next]_vars

\* The steps of cycle c in which its pending request is answered, or its
\* settling delay ends.
CycleStepOf(c) ==
    \/ QueryError(c)
    \/ QueryData(c)
    \/ SettleElapsed(c)
    \/ PriceAnswer(c, 150)
    \/ WriteOk(c)

\* start(), stop(), the timers and the cycles they run, when every request
\* a cycle awaits is answered in the end (the store and the quote API answer
\* or time out, the 5 s timer fires): no cycle waits forever.
NextStop ==
    \/ \E m \in Intervals : Start(m)
    \/ Stop
    \/ \E t \in TimerIds : Tick(t)
    \/ CycleStep({150})

StopSpec ==
    /\ Init
    /\ [][NextStop]_vars
    /\ \A c \in Slots : WF_vars(CycleStepOf(c))

\* Reconciliation: manually triggered cycles, one at a time, against every
\* behaviour of the trade feed, the quote API, the store and the clock.
NextReconcile ==
    \/ (\A c \in Slots : ~InFlight(c)) /\ TriggerUpdate
    \/ CycleStep(Prices)
    \/ TokenFailure
    \/ \E k \in Tokens, v \in TradeValues : ~db[k].is_test /\ TradeEvent(k, v)
    \/ AdvanceTime
    \/ PriceExpire

ReconcileSpec == InitReconcile /\ [][NextReconcile]_vars

\* Update cycles, one at a time and without failures, and manual override
\* requests.
NextOverride ==
    \/ (\A c \in Slots : ~InFlight(c)) /\ TriggerUpdate
    \/ CycleStep({150})
    \/ \E k \in Tokens, v \in OverrideValues : ManualOverride(k, v)
    \/ AdvanceTime

OverrideSpec == InitReconcile /\ [][NextOverride]_vars

\* The trade stream against every behaviour of the socket and of its
\* callers.
NextStream ==
    \/ InitializeWebSocket
    \/ \E tokenAddresses \in TokenLists : Subscribe(tokenAddresses)
    \/ Open
    \/ Error
    \/ Close
    \/ ReconnectTimer
    \/ \E m \in Messages : Message(m)

StreamSpec == Init /\ [][NextStream]_vars

\* The trade stream as the update cycles drive it: manually triggered
\* cycles, overlapping, each calling initializeWebSocket and subscribing to
\* its candidates, other callers of subscribeToTokenTrades, and every
\* behaviour of the socket and of the reconnect timers.
NextFeed ==
    \/ TriggerUpdate
    \/ CycleStep({150})
    \/ \E tokenAddresses \in TokenLists : Subscribe(tokenAddresses)
    \/ Open
    \/ Error
    \/ Close
    \/ ReconnectTimer

FeedSpec == InitReconcile /\ [][NextFeed]_vars

\* The feed refuses a connection attempt that is not the last one the
\* stream makes: the 'error' event of a connecting socket.
Refuse ==
    /\ wsConnection = "connecting"
    /\ reconnectAttempts < maxReconnectAttempts
    /\ Error

\* The connection is lost: the 'error' or the 'close' event of an open
\* socket.
Drop ==
    /\ wsConnection = "open"
    /\ (Error \/ Close)

\* The 'close' event that follows the close() call of the error handler.
CloseFollows ==
    /\ wsConnection = "closing"
    /\ Close

\* The trade stream against a feed that drops connections at any time and
\* refuses connection attempts, but accepts one before the stream gives up.
\* The runtime delivers the 'close' event of a closed socket and fires the
\* reconnect timers, and a connection attempt that is not refused opens.
NextReconnect ==
    \/ InitializeWebSocket
    \/ \E tokenAddresses \in TokenLists : Subscribe(tokenAddresses)
    \/ Open
    \/ Refuse
    \/ Drop
    \/ CloseFollows
    \/ ReconnectTimer

ReconnectSpec ==
    /\ Init
    /\ [][NextReconnect]_vars
    /\ WF_vars(Open)
    /\ WF_vars(CloseFollows)
    /\ WF_vars(ReconnectTimer)

\* The SOL price client against every interleaving of its callers (the
\* routes that call getSolPrice, the auto-update), the answers of the quote
\* API and the clock; every quote request settles.
NextSolPrice ==
    \/ GetSolPrice
    \/ UpdateSolPrice
    \/ \E p \in Prices : QuoteAnswer(p)
    \/ QuoteFailure
    \/ \E d \in {1, FiveMinutes} : Elapse(d)

SolPriceSpec ==
    /\ Init
    /\ [][NextSolPrice]_vars
    /\ WF_vars(QuoteSettles)

\* =================================================================== claims
\* A step in which a cycle of the given origin starts.
CycleStarts(origin) ==
    \E c \in Slots : /\ ~InFlight(c)
                     /\ cycles'[c].pc = "query"
                     /\ cycles'[c].origin = origin

AnyCycleStarts == \E c \in Slots : ~InFlight(c) /\ cycles'[c].pc # "idle"
AnyCycleEnds == \E c \in Slots : InFlight(c) /\ cycles'[c].pc = "idle"

\* C1: after stop() has returned and until the next start() call, isRunning
\* is false and no timer tick starts an update cycle, for every interleaving
\* of start(), stop() and the timer ticks.
C1_StopIsFinal ==
    [][lastCall = "stop" =>
          /\ ~CycleStarts("timer")
          /\ (lastCall' = "stop" => ~isRunning')]_vars

\* C2: a start() called while the scheduler is running runs no update cycle,
\* arms no timer and leaves the interval, the armed timer, isRunning and the
\* job status unchanged.
C2_StartWhileRunningIsNoOp ==
    [][\A m \in Intervals :
          (isRunning /\ Start(m)) =>
              UNCHANGED <<interval, isRunning, lastJobStatus, updateInterval,
                          timers, cycles>>]_vars

\* A start() call has found the scheduler running, its timer armed.
C2_Witness ==
    /\ lastCall = "startRunning"
    /\ isRunning
    /\ interval \in timers

\* C3: when the candidate query of a manually triggered cycle fails, the
\* exception leaves triggerUpdate() instead of a normal return.
C3_FailurePropagates ==
    [][\A c \in Slots :
          (cycles[c].origin = "manual" /\ QueryError(c)) =>
              triggerResult'.outcome = "threw"]_vars

\* C4: a failed cycle of the timer leaves the timer, the handle and isRunning
\* as they are; only stop() removes an armed timer, and while the scheduler
\* is running its timer is armed, so that every later tick starts a cycle.
C4_FailureKeepsTimer ==
    /\ [][/\ \A c \in Slots :
               (cycles[c].origin = "timer" /\ QueryError(c)) =>
                   UNCHANGED <<interval, isRunning, timers>>
          /\ \A t \in timers : t \in timers' \/ (Stop /\ t = interval)
          /\ \A t \in TimerIds : Tick(t) => CycleStarts("timer")]_vars
    /\ [](isRunning => interval \in timers)

\* A cycle of the timer has failed; the scheduler runs, its timer is armed
\* and the next tick can start a cycle.
C4_Witness ==
    /\ lastJobStatus.status = "failed"
    /\ lastJobStatus.origin = "timer"
    /\ isRunning
    /\ interval \in timers
    /\ \E c \in Slots : ~InFlight(c)

\* C5 as stated: when the candidate query of a cycle fails, the last job
\* status becomes 'failed' with the message and no token record changes, and
\* the failed record is returned until the next cycle starts.
C5_FailedUntilNextStart ==
    [][/\ \A c \in Slots :
            QueryError(c) =>
                /\ getLastJobStatus'.status = "failed"
                /\ getLastJobStatus'.error = "query failed"
                /\ db' = db
       /\ ((getLastJobStatus.status = "failed"
              /\ getLastJobStatus' # getLastJobStatus) => AnyCycleStarts)]_vars

\* C5, amended: when the candidate query of a cycle fails, the last job
\* status becomes that cycle's 'failed' record with the message and no token
\* record changes; the failed record is returned, by getLastJobStatus() and
\* as lastJob by the status route, until another cycle starts or a cycle
\* that overlapped ends and writes its own record.
C5_FailedUntilNextWrite ==
    [][/\ \A c \in Slots :
            QueryError(c) =>
                /\ getLastJobStatus'.status = "failed"
                /\ getLastJobStatus'.error = "query failed"
                /\ getLastJobStatus'.job = c
                /\ SchedulerStatusRoute'.lastJob = getLastJobStatus'
                /\ db' = db
       /\ ((getLastJobStatus.status = "failed"
              /\ getLastJobStatus' # getLastJobStatus) =>
                 (AnyCycleStarts \/ AnyCycleEnds))]_vars

\* The failed record of a cycle is the last job status while a cycle that
\* overlapped it is past its query.
C5_Witness ==
    /\ lastJobStatus.status = "failed"
    /\ lastJobStatus.error = "query failed"
    /\ \E c \in Slots : cycles[c].pc \in {"settle", "price", "write"}

\* C6: the record a triggerUpdate() returns is the one of its own cycle and
\* has status 'completed' or 'failed', also when other cycles overlap.
C6_TriggerReturnsOwnRecord ==
    triggerResult.outcome = "returned" =>
        /\ triggerResult.own
        /\ triggerResult.status \in {"completed", "failed"}

\* A triggerUpdate() has returned its completed record while a cycle of the
\* timer or of another trigger is in flight.
C6_Witness ==
    /\ triggerResult.outcome = "returned"
    /\ triggerResult.status = "completed"
    /\ lastJobStatus.origin = "manual"
    /\ lastJobStatus.status = "completed"
    /\ \E c \in Slots : InFlight(c) /\ cycles[c].origin \in {"timer", "manual"}

\* C7: the isRunning field of the status route equals the scheduler's
\* running state.
C7_StatusIsRunning == SchedulerStatusRoute.isRunning = isSchedulerRunning

\* The token that cycle c is reconciling.
TokenOf(c) == cycles[c].tokens[cycles[c].idx]

\* Cycle c is reconciling a token whose valuation came from the trade cache
\* and is positive.
LivePositive(c) ==
    /\ cycles[c].pc \in {"price", "write"}
    /\ cycles[c].dataSource = "real-time"
    /\ cycles[c].marketCapSol > 0

\* Cycle c is reconciling a token for which the trade cache had no entry.
NoCacheEntry(c) ==
    /\ cycles[c].pc \in {"price", "write"}
    /\ cycles[c].dataSource # "real-time"

\* The reconciliation of the token of cycle c ends in this step.
TokenEnds(c) == PriceError(c) \/ WriteOk(c) \/ WriteError(c)

C9_NoRewriteWithoutLiveData ==
    [][\A k \in Tokens :
          db'[k] # db[k] =>
              \E c \in Slots :
                  /\ cycles[c].pc = "write"
                  /\ TokenOf(c) = k
                  /\ \/ cycles[c].dataSource = "real-time"
                     \/ ~(db[k].market_cap > 0)]_vars

\* C10: the first reconciliation of a token with no cache entry and no
\* persisted value, its store write succeeding, returns updated: true with
\* valuation 0 and source 'none' and writes 0.
C10_FirstReconcileWritesZero ==
    [][\A c \in Slots :
          (NoCacheEntry(c) /\ db[TokenOf(c)].market_cap = Null
             /\ WriteOk(c)) =>
              /\ result'.updated
              /\ result'.marketCapUsd = 0
              /\ result'.dataSource = "none"
              /\ db'[TokenOf(c)].market_cap = 0]_vars

\* C11: in a cycle that starts when the previous cycle has just ended, no
\* trade message having been received for the token, the market cap of a
\* token that was positive when the cycle started is not changed.
C11_SecondRunKeepsPositive ==
    [][\A k \in Tokens :
          (successive /\ (\E c \in Slots : InFlight(c))
             /\ db[k].market_cap > 0 /\ tokenPriceCache[k] = Null) =>
              db'[k].market_cap = db[k].market_cap]_vars

\* C12: a token's last_market_cap_update is set only if its market_cap has
\* been written.
C12_StampOnlyWithValue ==
    \A k \in Tokens :
        db[k].last_market_cap_update # Null => db[k].market_cap # Null

\* C13: in a run of consecutive failures, every failure up to the ceiling is
\* followed by one reconnect attempt, made or scheduled; the attempts never
\* exceed the ceiling, and past it none is scheduled.
C13_ReconnectsBounded ==
    /\ made <= maxReconnectAttempts
    /\ failures <= maxReconnectAttempts =>
           made + (IF reconnectTimer # 0 THEN 1 ELSE 0) = failures
    /\ failures > maxReconnectAttempts =>
           reconnectTimer = 0 /\ made = maxReconnectAttempts

\* The failure after the last reconnect attempt has been handled.
C13_Witness ==
    /\ failures = maxReconnectAttempts + 1
    /\ made = maxReconnectAttempts
    /\ wsConnection = "closed"

\* C14: the delay scheduled when the attempt counter is k - 1 is 5 s, 10 s,
\* 20 s for k = 1, 2, 3 and 30 s for every later k; the delays increase
\* strictly until 30 s is reached and never exceed it.
C14_BackoffDelays ==
    /\ reconnectTimer # 0 =>
           reconnectTimer = CASE reconnectAttempts = 0 -> 5
                              [] reconnectAttempts = 1 -> 10
                              [] reconnectAttempts = 2 -> 20
                              [] OTHER -> 30
    /\ \A k \in 1..maxReconnectAttempts :
           /\ ReconnectDelay(k - 1) <= 30
           /\ ReconnectDelay(k - 1) < 30 =>
                  ReconnectDelay(k - 1) < ReconnectDelay(k)

\* The last reconnect attempt is scheduled, at the cap.
C14_Witness ==
    /\ reconnectTimer = 30
    /\ reconnectAttempts = maxReconnectAttempts - 1

\* C15: a subscribe made while connected sends one message with its list; a
\* subscribe made while not connected sends nothing and is remembered, and
\* the transition to connected sends one message with the list remembered,
\* which is the one of the latest subscribe.
C15_SubscribeSendsOnce ==
    [][/\ \A tokenAddresses \in TokenLists :
            Subscribe(tokenAddresses) =>
                /\ lastSubscribedTokens' = tokenAddresses
                /\ sent' = IF isConnected THEN <<tokenAddresses>>
                           ELSE <<>>
       /\ (Open /\ lastSubscribedTokens # {}) =>
              sent' = <<lastSubscribedTokens>>
       /\ (InitializeWebSocket \/ Open \/ Error \/ Close \/ ReconnectTimer)
              => lastSubscribedTokens' = lastSubscribedTokens]_vars

\* The stream is connected and the list of the latest subscribe was sent.
C15_Witness ==
    /\ wsConnection = "open"
    /\ isConnected
    /\ lastSubscribedTokens = {1, 2}
    /\ sent = <<{1, 2}>>

\* C16: only subscribe changes the remembered list, which is therefore kept
\* through errors, closes and reconnects, and the transition to connected of
\* a socket made by a reconnect sends the remembered list again.
C16_SubscriptionRemembered ==
    [][/\ lastSubscribedTokens' # lastSubscribedTokens =>
            \E tokenAddresses \in TokenLists : Subscribe(tokenAddresses)
       /\ (Open /\ made > 0 /\ lastSubscribedTokens # {}) =>
              /\ sent' = <<lastSubscribedTokens>>
              /\ lastSubscribedTokens' = lastSubscribedTokens]_vars

\* A socket made by a reconnect is connecting, the list still remembered.
C16_Witness ==
    /\ wsConnection = "connecting"
    /\ made > 0
    /\ lastSubscribedTokens = {1, 2}

\* The stream has given up: its socket is closed and no reconnect is
\* scheduled.
GaveUp == wsConnection = "closed" /\ reconnectTimer = 0

\* C17 as stated: after a subscribe made while not connected, a connection
\* attempt is in progress, or scheduled, or about to be scheduled by the
\* close of the failed socket.
C17_SubscribeConnects ==
    [][\A tokenAddresses \in TokenLists :
          (~isConnected /\ Subscribe(tokenAddresses)) =>
              \/ wsConnection' \in {"connecting", "closing"}
              \/ reconnectTimer' # 0]_vars

\* C17, amended: after a subscribe made while not connected and before the
\* reconnect ceiling is reached, a connection attempt is in progress, or
\* scheduled, or about to be scheduled by the close of the failed socket;
\* once the stream has given up, subscribe starts no attempt.
C17_SubscribeConnectsUnlessGivenUp ==
    [][\A tokenAddresses \in TokenLists :
          (~isConnected /\ Subscribe(tokenAddresses)) =>
              IF GaveUp
              THEN wsConnection' = "closed" /\ reconnectTimer' = 0
              ELSE \/ wsConnection' \in {"connecting", "closing"}
                   \/ reconnectTimer' # 0]_vars

\* The first socket is connecting and a list is remembered.
C17_Witness ==
    /\ wsConnection = "connecting"
    /\ failures = 0
    /\ made = 0
    /\ lastSubscribedTokens # {}

\* C18: once the ceiling is exceeded the socket stays closed, no reconnect is
\* scheduled or made, isConnected is false and no message is sent.
C18_PermanentlyFailed ==
    failures > maxReconnectAttempts =>
        /\ GaveUp
        /\ ~isConnected
        /\ sent = <<>>
        /\ reconnectAttempts = maxReconnectAttempts

\* The stream has given up and a subscribe has been made.
C18_Witness ==
    /\ failures > maxReconnectAttempts
    /\ GaveUp
    /\ lastSubscribedTokens # {}

\* C19: while a SOL price is cached and fresh, or a quote request is in
\* flight, no quote request is issued.
C19_OneRequestPerWindow ==
    [][\A c \in Slots :
          (cycles[c].pc # "price" /\ cycles'[c].pc = "price") =>
              /\ solPrice = Null
              /\ \A d \in Slots \ {c} : cycles[d].pc # "price"]_vars

\* C20: at most one quote request is in flight.
C20_OneRequestInFlight ==
    Cardinality({c \in Slots : cycles[c].pc = "price"}) <= 1

\* C21: when the quote request fails and a SOL price was cached earlier, even
\* older than cacheTimeout, the conversion goes on with that stale price;
\* when no price was ever cached, the caller gets an error and the price
\* cache stays empty.
C21_StalePriceOnFailure ==
    [][\A c \in Slots :
          PriceError(c) =>
              IF solPrice # Null
              THEN /\ cycles'[c].idx = cycles[c].idx
                   /\ cycles'[c].pc = "write"
                   /\ cycles'[c].price = solPrice
              ELSE /\ ~result'.updated
                   /\ result'.error # "none"
                   /\ solPrice' = Null]_vars

\* C22: the candidates a cycle reads are tokens that are not test tokens and
\* whose last_market_cap_update is null or older than the cutoff when the
\* query runs; the cycle keeps that list to its end, and a token record
\* changes only by the store write of a cycle for one of its candidates,
\* which changes no other record.
C22_WritesOnlyCandidates ==
    [][/\ \A c \in Slots :
            QueryData(c) =>
                \A i \in 1..Len(cycles'[c].tokens) :
                    LET k == cycles'[c].tokens[i]
                    IN  /\ ~db[k].is_test
                        /\ \/ db[k].last_market_cap_update = Null
                           \/ db[k].last_market_cap_update
                                < cycles[c].startTime - StaleAfter
       /\ \A c \in Slots :
            (cycles[c].pc \notin {"idle", "query"} /\ cycles'[c].pc # "idle")
                => cycles'[c].tokens = cycles[c].tokens
       /\ \A k \in Tokens :
            db'[k] # db[k] =>
                /\ ~db[k].is_test
                /\ \E c \in Slots :
                       /\ WriteOk(c)
                       /\ TokenOf(c) = k
                       /\ \E i \in 1..Len(cycles[c].tokens) :
                              cycles[c].tokens[i] = k
                /\ \A j \in Tokens \ {k} : db'[j] = db[j]]_vars

\* A cycle whose one candidate was token 1 has written it; token 2, written
\* by an earlier cycle and newer than the cutoff, and the test token were
\* left alone.
C22_Witness ==
    /\ lastJobStatus.status = "completed"
    /\ lastJobStatus.tokensProcessed = 1
    /\ lastJobStatus.tokensUpdated = 1
    /\ result.updated
    /\ result.token = 1
    /\ db[2].market_cap # 10000
    /\ db[2].last_market_cap_update >= lastJobStatus.startTime - StaleAfter
    /\ db[3].market_cap = Null
    /\ db[3].last_market_cap_update = Null

\* C23: when the reconciliation of a candidate fails, for want of a price or
\* by a failed store write, the cycle adds one error entry for that token,
\* changes no record and goes on with the next candidate; after the last
\* candidate it ends with a 'completed' record that counts every candidate
\* as processed and holds the error entries.
C23_TokenFailureIsolated ==
    [][\A c \in Slots :
          /\ (PriceError(c) \/ WriteError(c)) =>
                 /\ db' = db
                 /\ ~result'.updated
                 /\ result'.token = TokenOf(c)
                 /\ IF cycles[c].idx < Len(cycles[c].tokens)
                    THEN /\ cycles'[c].pc \in {"price", "write"}
                         /\ cycles'[c].idx = cycles[c].idx + 1
                         /\ cycles'[c].tokens = cycles[c].tokens
                         /\ cycles'[c].errors
                              = Append(cycles[c].errors, TokenOf(c))
                         /\ lastJobStatus' = lastJobStatus
                    ELSE /\ cycles'[c].pc = "idle"
                         /\ lastJobStatus'.status = "completed"
                         /\ lastJobStatus'.errors
                              = Append(cycles[c].errors, TokenOf(c))
                         /\ lastJobStatus'.tokensProcessed
                              = Len(cycles[c].tokens)
          /\ (cycles[c].pc \notin {"idle", "query"} /\ cycles'[c].pc = "idle")
                 => /\ lastJobStatus'.status = "completed"
                    /\ lastJobStatus'.tokensProcessed = Len(cycles[c].tokens)]_vars

\* A cycle of two candidates has ended: the first one failed and has its
\* error entry, the second one was reconciled after it.
C23_Witness ==
    /\ lastJobStatus.status = "completed"
    /\ lastJobStatus.errors = <<1>>
    /\ lastJobStatus.tokensProcessed = 2
    /\ lastJobStatus.tokensUpdated = 1
    /\ result.updated
    /\ result.token = 2

\* C24: a quote request is made only for a valuation that is not zero; when
\* it gives no price, updateTokenMarketCap returns updated: false with the
\* error 'Could not calculate market cap', no record changes, and the cycle
\* moves past the token: the position in the candidate list never goes
\* back and no token is twice in the list.
C24_NoPriceSkipsToken ==
    [][\A c \in Slots :
          /\ PriceError(c) =>
                 /\ cycles[c].marketCapSol # 0
                 /\ ~result'.updated
                 /\ result'.token = TokenOf(c)
                 /\ result'.error = "Could not calculate market cap"
                 /\ result'.marketCapUsd = Null
                 /\ db' = db
                 /\ cycles'[c].pc # "idle" =>
                        /\ cycles'[c].idx > cycles[c].idx
                        /\ cycles'[c].tokens[cycles'[c].idx] # TokenOf(c)
          /\ (cycles[c].pc \in {"price", "write"} /\ cycles'[c].pc # "idle")
                 => cycles'[c].idx >= cycles[c].idx
          /\ \A i, j \in 1..Len(cycles[c].tokens) :
                 i # j => cycles[c].tokens[i] # cycles[c].tokens[j]]_vars

\* The first candidate got no price and was skipped, its record as it was;
\* the cycle is at its second candidate.
C24_Witness ==
    \E c \in Slots :
        /\ cycles[c].pc \in {"price", "write"}
        /\ cycles[c].tokens = <<1, 2>>
        /\ cycles[c].idx = 2
        /\ cycles[c].errors = <<1>>
        /\ result.token = 1
        /\ result.error = "Could not calculate market cap"
        /\ db[1].market_cap = Null
        /\ db[1].last_market_cap_update = Null

\* C25: initializeWebSocket() called while the socket is open or connecting
\* creates no socket, returns the existing handle and leaves the stream as
\* it is; whatever the number of calls, one socket exists in those states.
C25_ConnectIsIdempotent ==
    /\ [][(InitializeWebSocket /\ wsConnection \in {"connecting", "open"}) =>
              /\ initializeWebSocket(wsConnection).socket = wsConnection
              /\ initializeWebSocket(wsConnection).created = 0
              /\ UNCHANGED <<wsConnection, sockets, isConnected,
                             reconnectAttempts, lastSubscribedTokens,
                             reconnectTimer>>]_vars
    /\ [](wsConnection \in {"connecting", "open"} => sockets = 1)

\* initializeWebSocket() was called on the open socket, after the
\* subscription was sent on it: the socket is still the one open.
C25_Witness ==
    /\ wsConnection = "open"
    /\ isConnected
    /\ sockets = 1
    /\ lastSubscribedTokens # {}
    /\ sent = <<>>

\* C26: the cache holds no entry at the start; a trade message for token k
\* with valuation v leaves v as the entry the lookup returns for k, whatever
\* the entry was, and leaves the entries of the other tokens; nothing else
\* changes the cache. The lookup therefore returns the valuation of the
\* latest trade message for the token, and null if there was none.
C26_LastTradeWins ==
    /\ \A k \in Tokens : getCachedTokenPrice(k) = Null
    /\ [][/\ \A k \in Tokens, v \in TradeValues :
               TradeEvent(k, v) =>
                   /\ getCachedTokenPrice(k)' = v
                   /\ \A j \in Tokens \ {k} :
                          getCachedTokenPrice(j)' = getCachedTokenPrice(j)
          /\ tokenPriceCache' # tokenPriceCache =>
               \E k \in Tokens, v \in TradeValues : TradeEvent(k, v)]_vars

\* Token 1 was reconciled from a trade message of 50 SOL; a later message
\* with valuation 0 has replaced the entry, token 2 having none.
C26_Witness ==
    /\ result.token = 1
    /\ result.dataSource = "real-time"
    /\ result.marketCapSol = 500
    /\ getCachedTokenPrice(1) = 0
    /\ getCachedTokenPrice(2) = Null

\* C27: an inbound frame changes the trade cache only if it parses and has
\* both a mint and a marketCapSol field, and then the entry of its mint is
\* its marketCapSol; an acknowledgment, any other object and a frame that
\* does not parse leave the cache, the socket, the connection state and the
\* remembered subscription as they are.
C27_OnlyTradesReachCache ==
    [][\A m \in Messages :
          Message(m) =>
              IF m.parses /\ m.mint # Null /\ m.marketCapSol # Null
              THEN /\ tokenPriceCache'
                        = [tokenPriceCache EXCEPT ![m.mint] = m.marketCapSol]
                   /\ UNCHANGED connectionVars
              ELSE UNCHANGED <<tokenPriceCache, connectionVars>>]_vars

\* An acknowledgment was handled after a trade message of 50 SOL for token
\* 1: the entry, the open socket and the subscription are as they were.
C27_Witness ==
    /\ received = "acknowledgment"
    /\ tokenPriceCache[1] = 500
    /\ wsConnection = "open"
    /\ isConnected
    /\ lastSubscribedTokens = {1, 2}

\* C28: the timer of a start() is armed, and isRunning set, only in the step
\* that ends its initial cycle with a 'completed' or 'failed' record, and
\* isRunning is false as long as the initial cycle of a start() is in
\* flight.
C28_NotRunningDuringInitialCycle ==
    /\ [][(interval' # interval /\ interval' # 0) =>
              \E c \in Slots :
                  /\ cycles[c].origin = "start"
                  /\ cycles'[c].pc = "idle"
                  /\ lastJobStatus'.job = c
                  /\ lastJobStatus'.status \in {"completed", "failed"}
                  /\ interval' \in timers'
                  /\ isRunning']_vars
    /\ [](\A c \in Slots :
              (InFlight(c) /\ cycles[c].origin = "start") => ~isRunning)

\* C29: a cycle whose candidate query answers a non-empty list calls
\* subscribeToTokenTrades with all the candidates in the step that starts
\* the settling delay; the list has the never-updated tokens first, then the
\* oldest first; the first token is entered only by the end of the settling
\* delay; the position moves by one, and past a token only in the step that
\* ends its reconciliation; a record changes only by the store write of the
\* token a cycle is at.
C29_SubscribeSettleThenInOrder ==
    [][/\ \A c \in Slots :
            /\ (cycles[c].pc = "query" /\ cycles'[c].pc \notin {"query", "idle"})
                   =>
                   /\ cycles'[c].pc = "settle"
                   /\ cycles'[c].idx = 0
                   /\ cycles'[c].tokens # <<>>
                   /\ lastSubscribedTokens'
                        = {cycles'[c].tokens[i] :
                             i \in 1..Len(cycles'[c].tokens)}
                   /\ \A i, j \in 1..Len(cycles'[c].tokens) :
                          i < j =>
                              LET a == db[cycles'[c].tokens[i]].last_market_cap_update
                                  b == db[cycles'[c].tokens[j]].last_market_cap_update
                              IN  a = Null \/ (b # Null /\ a <= b)
            /\ (cycles[c].pc \notin {"price", "write"}
                  /\ cycles'[c].pc \in {"price", "write"}) =>
                   /\ cycles[c].pc = "settle"
                   /\ SettleElapsed(c)
                   /\ cycles'[c].idx = 1
            /\ (cycles[c].pc \in {"price", "write"}
                  /\ cycles'[c].pc # "idle"
                  /\ cycles'[c].idx # cycles[c].idx) =>
                   /\ cycles'[c].idx = cycles[c].idx + 1
                   /\ TokenEnds(c)
       /\ \A k \in Tokens :
            db'[k] # db[k] =>
                \E c \in Slots : cycles[c].pc = "write" /\ TokenOf(c) = k]_vars

\* A cycle has subscribed to its candidates 1 and 2, has written token 1
\* after the settling delay and is at token 2, not written yet.
C29_Witness ==
    \E c \in Slots :
        /\ cycles[c].tokens = <<1, 2>>
        /\ cycles[c].idx = 2
        /\ cycles[c].pc \in {"price", "write"}
        /\ lastSubscribedTokens = {1, 2}
        /\ result.updated
        /\ result.token = 1
        /\ db[1].last_market_cap_update >= cycles[c].startTime
        /\ db[2].last_market_cap_update = 0

\* C30: stop() leaves the cycles in flight, the job status and the token
\* records as they are; a cycle ends only by writing its own 'completed' or
\* 'failed' record, a completed one counting every candidate as processed;
\* and a cycle in flight after a stop() goes on to its end.
C30_StopLeavesCycleInFlight ==
    /\ [][/\ Stop => UNCHANGED <<cycles, lastJobStatus, db, result>>
          /\ \A c \in Slots :
               (InFlight(c) /\ cycles'[c].pc = "idle") =>
                   /\ lastJobStatus'.job = c
                   /\ lastJobStatus'.startTime = cycles[c].startTime
                   /\ lastJobStatus'.status \in {"completed", "failed"}
                   /\ lastJobStatus'.status = "completed" =>
                          lastJobStatus'.tokensProcessed
                            = Len(cycles[c].tokens)]_vars
    /\ \A c \in Slots : (lastCall = "stop" /\ InFlight(c)) ~> ~InFlight(c)

\* stop() was called while a cycle of the timer was reconciling its token:
\* the timer is gone and the cycle is still at its store write.
C30_Witness ==
    /\ lastCall = "stop"
    /\ ~isRunning
    /\ interval = 0
    /\ timers = {}
    /\ \E c \in Slots :
           /\ cycles[c].origin = "timer"
           /\ cycles[c].pc = "write"
           /\ cycles[c].tokens = <<1>>

C32_LiveOnlyIfPositive ==
    [][\A c \in Slots :
          /\ (cycles'[c].pc \in {"price", "write"}
                /\ cycles'[c].dataSource = "real-time") =>
                 cycles'[c].marketCapSol > 0
          /\ (cycles[c].pc = "write" /\ db[TokenOf(c)].market_cap > 0
                /\ db'[TokenOf(c)] # db[TokenOf(c)]) =>
                 ~(cycles[c].dataSource = "real-time"
                     /\ cycles[c].marketCapSol <= 0)]_vars

\* C33: the reconnect attempt counter is between 0 and 20 in every state; a
\* reconnect attempt adds exactly one to it; it changes otherwise only when
\* the socket opens, which sets it to 0: an error, a close, a subscribe call
\* and the steps of the update cycles leave it as it is.
C33_AttemptCounter ==
    /\ [](reconnectAttempts \in 0..maxReconnectAttempts)
    /\ [][/\ ReconnectTimer => reconnectAttempts' = reconnectAttempts + 1
          /\ Open => reconnectAttempts' = 0
          /\ reconnectAttempts' # reconnectAttempts =>
               (ReconnectTimer \/ (Open /\ reconnectAttempts' = 0))
          /\ (\/ Error
              \/ Close
              \/ \E tokenAddresses \in TokenLists : Subscribe(tokenAddresses)
              \/ TriggerUpdate
              \/ CycleStep({150})) =>
               reconnectAttempts' = reconnectAttempts]_vars

\* The last reconnect attempt was made: the counter is at the ceiling, the
\* socket of that attempt is connecting and an update cycle has subscribed.
C33_Witness ==
    /\ reconnectAttempts = maxReconnectAttempts
    /\ wsConnection = "connecting"
    /\ lastSubscribedTokens = {1, 2}
    /\ \E c \in Slots : cycles[c].pc = "settle"

\* C34: whatever the interleaving of socket events, reconnect timers,
\* subscribe calls and overlapping update cycles, at most one socket exists
\* that was created and not closed, and exactly one while the handle is
\* connecting or open; at most one reconnect timer is pending; and
\* isConnected is true only while the socket of the handle is open.
C34_SingleConnection ==
    /\ sockets <= 1
    /\ wsConnection \in {"connecting", "open", "closing"} => sockets = 1
    /\ reconnectTimers <= 1
    /\ isConnected => wsConnection = "open"

\* Two update cycles overlap, both past their initializeWebSocket call and
\* one past its subscribe call, while the socket is closed and its
\* reconnect timer is pending: no second socket was created.
C34_Witness ==
    /\ wsConnection = "closed"
    /\ sockets = 0
    /\ reconnectTimers = 1
    /\ made > 0
    /\ \A c \in Slots : InFlight(c)
    /\ \E c \in Slots : cycles[c].pc = "settle"

\* C35: when the feed accepts a connection attempt before the stream gives
\* up, the reconnect timers firing, a stream that was disconnected is
\* connected again in the end with the attempt counter at 0; and the step
\* that connects it sets the counter to 0 and sends the list of the latest
\* subscribe, which it keeps.
C35_ReconnectsAndResubscribes ==
    /\ [][Open =>
              /\ wsConnection' = "open"
              /\ isConnected'
              /\ reconnectAttempts' = 0
              /\ lastSubscribedTokens' = lastSubscribedTokens
              /\ lastSubscribedTokens # {} =>
                     sent' = <<lastSubscribedTokens>>]_vars
    /\ (wsConnection \in {"closing", "closed"})
           ~> (wsConnection = "open" /\ isConnected /\ reconnectAttempts = 0)

\* The feed has refused every attempt but the last one the stream makes:
\* the socket of the twentieth reconnect is connecting, the subscription
\* still remembered.
C35_Witness ==
    /\ wsConnection = "connecting"
    /\ reconnectAttempts = maxReconnectAttempts
    /\ failures = maxReconnectAttempts
    /\ reconnectTimers = 0
    /\ ~isConnected
    /\ lastSubscribedTokens = {1, 2}

\* C36: at most one timer of setInterval is armed, and every armed timer is
\* the one this.interval refers to, which stop() clears; also when start()
\* is called while an earlier start() awaits its initial cycle.
C36_OneTimerArmed ==
    /\ Cardinality(timers) <= 1
    /\ \A t \in timers : t = interval

\* C37: whenever no update cycle is in flight, the last job status is null
\* or a 'completed' or 'failed' record, never a 'running' one, whatever the
\* interleaving of the cycles of start(), of the timers and of
\* triggerUpdate().
C37_NoRunningRecordAtRest ==
    (\A c \in Slots : ~InFlight(c)) =>
        getLastJobStatus.status \in {"none", "completed", "failed"}

\* No cycle is in flight after a cycle of the timer and a manually triggered
\* one: the scheduler runs and the record left is the failed one of the
\* timer's cycle.
C37_Witness ==
    /\ \A c \in Slots : ~InFlight(c)
    /\ isRunning
    /\ triggerResult.outcome = "returned"
    /\ lastJobStatus.status = "failed"
    /\ lastJobStatus.origin = "timer"

\* The counts of cycle c after a step: those of its record if the step has
\* ended it, else those it holds.
CountsAfter(c) ==
    IF cycles'[c].pc = "idle"
    THEN [tokensUpdated |-> lastJobStatus'.tokensUpdated,
          errors |-> lastJobStatus'.errors]
    ELSE [tokensUpdated |-> cycles'[c].tokensUpdated,
          errors |-> cycles'[c].errors]

C39_UpdatingFlagIsReset ==
    /\ [](solPriceService.isUpdating <=> quoteRequests = 1)
    /\ [](quoteRequests \in {0, 1})
    /\ [][/\ QuoteSettles => ~solPriceService'.isUpdating
          /\ (UpdateSolPrice /\ ~solPriceService.isUpdating) =>
               /\ quoteRequests' = quoteRequests + 1
               /\ solPriceService'.isUpdating]_vars
    /\ solPriceService.isUpdating ~> ~solPriceService.isUpdating

\* A refresh has failed with no price cached, and the refresh of a later
\* call is in progress.
C39_Witness ==
    /\ served = [price |-> Null, from |-> "threw"]
    /\ solPriceService.solPrice = Null
    /\ solPriceService.isUpdating
    /\ quoteRequests = 1

\* C40: lastUpdate changes only in the step in which the quote API has
\* answered a price; a failed refresh that falls back to the cached price
\* leaves an expired cache expired, so that the next getSolPrice() sends a
\* quote request.
C40_StampOnlyOnSuccess ==
    [][/\ solPriceService'.lastUpdate # solPriceService.lastUpdate =>
            \E p \in Prices : QuoteAnswer(p)
       /\ (QuoteFailure /\ solPriceService.solPrice # Null /\ ~IsRecent) =>
            ~IsRecent']_vars

====
